---- MODULE Spec2Model ----
(***************************************************************************)
(* HotelOps backend: the request handlers of main.py, the entity schemas   *)
(* of schemas.py and the document store they are written against.          *)
(*                                                                         *)
(* Conventions of the model                                                *)
(*   Optional[T]   None is <<>>, a present value v is <<v>>.               *)
(*   str           a TLA+ string, except a file name, which is a sequence  *)
(*                 of one-character strings so that lower() and endswith() *)
(*                 are computed.                                           *)
(*   ObjectId      [oid |-> n]; its str() form is the decimal digits of n. *)
(*   document      [_id |-> ObjectId, data |-> the stored mapping].        *)
(*   dict with _id [_id |-> str, data |-> mapping]  ({"_id": id, **dump}). *)
(* The texts of the health response are written without their pictographs. *)
(***************************************************************************)
EXTENDS Integers, Sequences, FiniteSets, TLC

VARIABLES
    env,        \* the process environment: which of DATABASE_URL, DATABASE_NAME are set
    store,      \* collection name -> sequence of documents, in insertion order
    nextOid,    \* the store's source of fresh ObjectIds
    req,        \* the request being answered: [op, arg]
    resp,       \* the answer to req
    issued,     \* history: every identifier a create operation has returned
    echoed      \* history: every body create_guest has returned

vars == <<env, store, nextOid, req, resp, issued, echoed>>

----------------------------------------------------------------------------
(* Bounds of the model *)

\* documents the store may hold in Spec
MaxDocs == 2
\* guests beyond the default page size that SpecBulk may register
MaxExtra == 1
\* guests of SpecBulk that may differ from the bulk guest
MaxVaried == 1

(* Program constants *)

\* list_guests(q, limit: int = 25)
DefaultLimit == 25
\* list_bookings(limit: int = 50)
DefaultBookingLimit == 50
\* collections[:10]
MaxCollectionsShown == 10

----------------------------------------------------------------------------
(* Values *)

None == <<>>
Some(v) == <<v>>

Collections == <<"guest", "booking", "iddocument", "notification">>

RECURSIVE Digits(_)
Digits(n) == IF n < 10 THEN <<n>> ELSE Digits(n \div 10) \o <<n % 10>>

\* str(ObjectId): the canonical string form of a native identifier
Str(x) == Digits(x.oid)

Min(a, b) == IF a < b THEN a ELSE b

\* seq[:n]
Take(seq, n) == SubSeq(seq, 1, Min(n, Len(seq)))

TotalDocs ==
    Len(store["guest"]) + Len(store["booking"])
        + Len(store["iddocument"]) + Len(store["notification"])

----------------------------------------------------------------------------
(* schemas.py *)

IdTypes == {"aadhaar", "pan", "passport", "other"}
BookingStatuses == {"booked", "checked_in", "checked_out", "cancelled"}
Channels == {"sms", "whatsapp"}

\* Guest: the fields that fail validation
GuestErrors(raw) ==
    (IF raw.full_name = None THEN {"full_name"} ELSE {})
        \cup (IF raw.id_type # None /\ raw.id_type[1] \notin IdTypes
              THEN {"id_type"} ELSE {})

\* Guest(...).model_dump()
GuestDump(raw) ==
    [full_name |-> raw.full_name[1], phone |-> raw.phone, email |-> None,
     address |-> None, id_type |-> raw.id_type, id_number |-> raw.id_number,
     dob |-> None, meta |-> <<>>]

\* Booking without the lower bound of rate
BookingErrorsNoMinimum(raw) ==
    (IF raw.guest_id = None THEN {"guest_id"} ELSE {})
        \cup (IF raw.rate = None THEN {"rate"} ELSE {})
        \cup (IF raw.status # None /\ raw.status[1] \notin BookingStatuses
              THEN {"status"} ELSE {})

\* Booking: the fields that fail validation
BookingErrors(raw) ==
    (IF raw.guest_id = None THEN {"guest_id"} ELSE {})
        \cup (IF raw.rate = None \/ raw.rate[1] < 0 THEN {"rate"} ELSE {})
        \cup (IF raw.status # None /\ raw.status[1] \notin BookingStatuses
              THEN {"status"} ELSE {})

\* Booking(...).model_dump()
BookingDump(raw) ==
    [guest_id |-> raw.guest_id[1], room_number |-> raw.room_number,
     check_in |-> raw.check_in, check_out |-> raw.check_out,
     rate |-> raw.rate[1], source |-> Some("walkin"), notes |-> None,
     status |-> IF raw.status = None THEN "booked" ELSE raw.status[1]]

\* SendNotificationPayload: the fields that fail validation
PayloadErrors(raw) ==
    IF raw.channel = None THEN {"channel"} ELSE {}

\* Notification(channel, to, message): the fields that fail validation
NotificationErrors(channel, to, message) ==
    IF channel \notin Channels THEN {"channel"} ELSE {}

\* Notification(channel, to, message).model_dump()
NotificationDump(channel, to, message) ==
    [channel |-> channel, to |-> to, message |-> message, status |-> "queued",
     provider |-> None, error |-> None]

----------------------------------------------------------------------------
(* database module *)

\* the connection handle: None unless both settings are present
db == IF env.DATABASE_URL /\ env.DATABASE_NAME THEN Some("hotelops") ELSE None

\* how create_document(collection, record) ends
CreateKind(writeOk) ==
    IF db = None THEN "StoreUnavailable"
    ELSE IF ~writeOk THEN "StoreWriteError"
    ELSE "ok"

\* the store after create_document(collection, record) has inserted
Inserted(c, rec) ==
    [store EXCEPT ![c] = Append(@, [_id |-> [oid |-> nextOid], data |-> rec])]

\* whether a document matches a filter; a filter is None (the empty mapping)
\* or Some(set of [field, value]) for {"$or": [...]}
Matches(doc, filt) ==
    \/ filt = None
    \/ \E cond \in filt[1] :
         IF cond.field = "phone" THEN doc.data.phone = Some(cond.value)
         ELSE doc.data.id_number = Some(cond.value)

\* the documents of docs, from position i on, that match the filter
RECURSIVE Matching(_, _, _)
Matching(docs, filt, i) ==
    IF i > Len(docs) THEN <<>>
    ELSE (IF Matches(docs[i], filt) THEN <<docs[i]>> ELSE <<>>)
             \o Matching(docs, filt, i + 1)

\* get_documents(collection, filter, limit), the store being available
Found(c, filt, limit) == Take(Matching(store[c], filt, 1), limit)

\* db.list_collection_names(): the collections that hold a document
RECURSIVE NamesFrom(_)
NamesFrom(i) ==
    IF i > Len(Collections) THEN <<>>
    ELSE (IF Len(store[Collections[i]]) > 0 THEN <<Collections[i]>> ELSE <<>>)
             \o NamesFrom(i + 1)

----------------------------------------------------------------------------
(* Responses *)

NoHealth ==
    [database |-> "", database_url |-> "", database_name |-> "",
     connection_status |-> "", collections |-> <<>>]

Blank ==
    [kind |-> "none", fields |-> {}, id |-> <<>>, body |-> None, docs |-> <<>>,
     status |-> "", health |-> NoHealth]

\* an operation that raises
Raised(kind, fields) == [Blank EXCEPT !.kind = kind, !.fields = fields]

----------------------------------------------------------------------------
(* main.py: the handlers *)

\* the effect of a create handler once its input is validated: one call of
\* create_document, then the handler's return value
Persist(c, rec, writeOk, answer) ==
    IF CreateKind(writeOk) = "ok"
    THEN /\ store' = Inserted(c, rec)
         /\ nextOid' = nextOid + 1
         /\ resp' = answer
    ELSE /\ resp' = Raised(CreateKind(writeOk), {})
         /\ UNCHANGED <<store, nextOid>>

\* for d in docs: d["_id"] = str(d["_id"])
Stringified(docs) == [i \in 1..Len(docs) |-> [docs[i] EXCEPT !._id = Str(@)]]

\* filt of list_guests without its id_number branch
GuestFilterPhoneOnly(q) ==
    IF q # None /\ q[1] # ""
    THEN Some({[field |-> "phone", value |-> q[1]]})
    ELSE None

\* filt of list_guests
GuestFilter(q) ==
    IF q # None /\ q[1] # ""
    THEN Some({[field |-> "phone", value |-> q[1]],
               [field |-> "id_number", value |-> q[1]]})
    ELSE None

\* a list handler that answers a missing store with an empty list
ListingSwallowing(c, filt, limit) ==
    IF db = None THEN [Blank EXCEPT !.kind = "ok"]
    ELSE [Blank EXCEPT !.kind = "ok", !.docs = Stringified(Found(c, filt, limit))]

\* the answer of a list handler
Listing(c, filt, limit) ==
    IF db = None THEN Raised("StoreUnavailable", {})
    ELSE [Blank EXCEPT !.kind = "ok", !.docs = Stringified(Found(c, filt, limit))]

\* create_guest answering a repeated input with the guest already stored
create_guest_dedup(raw, writeOk) ==
    /\ req' = [op |-> "create_guest", arg |-> Some(raw)]
    /\ IF GuestErrors(raw) # {}
       THEN /\ resp' = Raised("ValidationError", GuestErrors(raw))
            /\ UNCHANGED <<store, nextOid>>
       ELSE IF db # None /\ \E i \in 1..Len(store["guest"]) :
                                 store["guest"][i].data = GuestDump(raw)
       THEN LET i == CHOOSE j \in 1..Len(store["guest"]) :
                         store["guest"][j].data = GuestDump(raw)
            IN /\ resp' = [Blank EXCEPT !.kind = "ok",
                                        !.id = Str(store["guest"][i]._id),
                                        !.body = Some([_id |-> Str(store["guest"][i]._id),
                                                       data |-> GuestDump(raw)])]
               /\ UNCHANGED <<store, nextOid>>
       ELSE Persist("guest", GuestDump(raw), writeOk,
                    [Blank EXCEPT !.kind = "ok", !.id = Str([oid |-> nextOid]),
                                  !.body = Some([_id |-> Str([oid |-> nextOid]),
                                                 data |-> GuestDump(raw)])])
    /\ issued' = IF resp'.kind = "ok" THEN issued \cup {resp'.id} ELSE issued
    /\ echoed' = IF resp'.kind = "ok" THEN echoed \cup {resp'.body[1]} ELSE echoed
    /\ UNCHANGED env

create_guest(raw, writeOk) ==
    /\ req' = [op |-> "create_guest", arg |-> Some(raw)]
    /\ IF GuestErrors(raw) # {}
       THEN /\ resp' = Raised("ValidationError", GuestErrors(raw))
            /\ UNCHANGED <<store, nextOid>>
       ELSE Persist("guest", GuestDump(raw), writeOk,
                    [Blank EXCEPT !.kind = "ok", !.id = Str([oid |-> nextOid]),
                                  !.body = Some([_id |-> Str([oid |-> nextOid]),
                                                 data |-> GuestDump(raw)])])
    /\ issued' = IF resp'.kind = "ok" THEN issued \cup {resp'.id} ELSE issued
    /\ echoed' = IF resp'.kind = "ok" THEN echoed \cup {resp'.body[1]} ELSE echoed
    /\ UNCHANGED env

\* list_guests asking the store for one document too few
list_guests_short(q, limit) ==
    /\ req' = [op |-> "list_guests", arg |-> Some([q |-> q, limit |-> limit])]
    /\ resp' = Listing("guest", GuestFilter(q), limit - 1)
    /\ UNCHANGED <<env, store, nextOid, issued, echoed>>

list_guests(q, limit) ==
    /\ req' = [op |-> "list_guests", arg |-> Some([q |-> q, limit |-> limit])]
    /\ resp' = Listing("guest", GuestFilter(q), limit)
    /\ UNCHANGED <<env, store, nextOid, issued, echoed>>

\* create_booking replacing the stored booking of the same room
create_booking_upsert(raw, writeOk) ==
    /\ req' = [op |-> "create_booking", arg |-> Some(raw)]
    /\ IF BookingErrors(raw) # {}
       THEN /\ resp' = Raised("ValidationError", BookingErrors(raw))
            /\ UNCHANGED <<store, nextOid>>
       ELSE IF CreateKind(writeOk) # "ok"
       THEN /\ resp' = Raised(CreateKind(writeOk), {})
            /\ UNCHANGED <<store, nextOid>>
       ELSE /\ store' = [store EXCEPT !["booking"] =
                            SelectSeq(@, LAMBDA d : d.data.room_number # raw.room_number)
                                \o <<[_id |-> [oid |-> nextOid], data |-> BookingDump(raw)]>>]
            /\ nextOid' = nextOid + 1
            /\ resp' = [Blank EXCEPT !.kind = "ok", !.id = Str([oid |-> nextOid]),
                                     !.body = Some([_id |-> Str([oid |-> nextOid]),
                                                    data |-> BookingDump(raw)])]
    /\ issued' = IF resp'.kind = "ok" THEN issued \cup {resp'.id} ELSE issued
    /\ UNCHANGED <<env, echoed>>

create_booking(raw, writeOk) ==
    /\ req' = [op |-> "create_booking", arg |-> Some(raw)]
    /\ IF BookingErrors(raw) # {}
       THEN /\ resp' = Raised("ValidationError", BookingErrors(raw))
            /\ UNCHANGED <<store, nextOid>>
       ELSE Persist("booking", BookingDump(raw), writeOk,
                    [Blank EXCEPT !.kind = "ok", !.id = Str([oid |-> nextOid]),
                                  !.body = Some([_id |-> Str([oid |-> nextOid]),
                                                 data |-> BookingDump(raw)])])
    /\ issued' = IF resp'.kind = "ok" THEN issued \cup {resp'.id} ELSE issued
    /\ UNCHANGED <<env, echoed>>

list_bookings(limit) ==
    /\ req' = [op |-> "list_bookings", arg |-> Some([limit |-> limit])]
    /\ resp' = Listing("booking", None, limit)
    /\ UNCHANGED <<env, store, nextOid, issued, echoed>>

\* send_notification storing the payload before it builds the Notification
send_notification_store_first(raw, writeOk) ==
    /\ req' = [op |-> "send_notification", arg |-> Some(raw)]
    /\ IF PayloadErrors(raw) # {}
       THEN /\ resp' = Raised("ValidationError", PayloadErrors(raw))
            /\ UNCHANGED <<store, nextOid>>
       ELSE Persist("notification",
                    NotificationDump(raw.channel[1], raw.to, raw.message), writeOk,
                    IF NotificationErrors(raw.channel[1], raw.to, raw.message) # {}
                    THEN Raised("ValidationError",
                                NotificationErrors(raw.channel[1], raw.to, raw.message))
                    ELSE [Blank EXCEPT !.kind = "ok", !.id = Str([oid |-> nextOid]),
                                       !.status = "sent"])
    /\ issued' = IF resp'.kind = "ok" THEN issued \cup {resp'.id} ELSE issued
    /\ UNCHANGED <<env, echoed>>

send_notification(raw, writeOk) ==
    /\ req' = [op |-> "send_notification", arg |-> Some(raw)]
    /\ IF PayloadErrors(raw) # {}
       THEN /\ resp' = Raised("ValidationError", PayloadErrors(raw))
            /\ UNCHANGED <<store, nextOid>>
       ELSE IF NotificationErrors(raw.channel[1], raw.to, raw.message) # {}
       THEN /\ resp' = Raised("ValidationError",
                              NotificationErrors(raw.channel[1], raw.to, raw.message))
            /\ UNCHANGED <<store, nextOid>>
       ELSE Persist("notification",
                    NotificationDump(raw.channel[1], raw.to, raw.message), writeOk,
                    [Blank EXCEPT !.kind = "ok", !.id = Str([oid |-> nextOid]),
                                  !.status = "sent"])
    /\ issued' = IF resp'.kind = "ok" THEN issued \cup {resp'.id} ELSE issued
    /\ UNCHANGED <<env, echoed>>

\* str.lower() on the characters a file name is drawn from
LowerChar(ch) ==
    CASE ch = "J" -> "j"
      [] ch = "P" -> "p"
      [] ch = "G" -> "g"
      [] ch = "A" -> "a"
      [] OTHER -> ch

Lower(name) == [i \in 1..Len(name) |-> LowerChar(name[i])]

\* str.endswith(suffix)
EndsWith(name, suffix) ==
    /\ Len(name) >= Len(suffix)
    /\ SubSeq(name, Len(name) - Len(suffix) + 1, Len(name)) = suffix

ImageSuffixes ==
    { <<".", "j", "p", "g">>, <<".", "p", "n", "g">>, <<".", "j", "p", "e", "g">> }

\* the mocked OCRResult for a file name
Detected(name) ==
    [id_type |-> IF \E suffix \in ImageSuffixes : EndsWith(Lower(name), suffix)
                 THEN "aadhaar" ELSE "pan",
     id_number |-> "XXXX-XXXX-1234", full_name |-> "Sample Guest",
     dob |-> "1990-01-01", raw_text |-> "Mocked OCR content"]

\* the audit document of an upload
AuditRecord(file) ==
    [file_name |-> file.filename, extracted |-> <<>>, raw_text |-> None,
     filename |-> file.filename, content_type |-> file.content_type,
     received_at |-> "utcnow"]

\* ocr_extract detecting the type before it stores the audit record
ocr_extract_detect_first(file, writeOk) ==
    /\ req' = [op |-> "ocr_extract", arg |-> Some(file)]
    /\ IF file.filename = None
       THEN /\ resp' = Raised("AttributeError", {})
            /\ UNCHANGED <<store, nextOid>>
       ELSE Persist("iddocument", AuditRecord(file), writeOk,
                    [Blank EXCEPT !.kind = "ok",
                                  !.body = Some(Detected(file.filename[1]))])
    /\ UNCHANGED <<env, issued, echoed>>

\* ocr_extract writing its audit record a second time
ocr_extract_retry(file, writeOk) ==
    /\ req' = [op |-> "ocr_extract", arg |-> Some(file)]
    /\ IF CreateKind(writeOk) = "ok"
       THEN /\ store' = [store EXCEPT !["iddocument"] =
                            @ \o <<[_id |-> [oid |-> nextOid], data |-> AuditRecord(file)],
                                   [_id |-> [oid |-> nextOid + 1], data |-> AuditRecord(file)]>>]
            /\ nextOid' = nextOid + 2
            /\ resp' = IF file.filename = None
                       THEN Raised("AttributeError", {})
                       ELSE [Blank EXCEPT !.kind = "ok",
                                          !.body = Some(Detected(file.filename[1]))]
       ELSE /\ resp' = Raised(CreateKind(writeOk), {})
            /\ UNCHANGED <<store, nextOid>>
    /\ UNCHANGED <<env, issued, echoed>>

ocr_extract(file, writeOk) ==
    /\ req' = [op |-> "ocr_extract", arg |-> Some(file)]
    /\ Persist("iddocument", AuditRecord(file), writeOk,
               IF file.filename = None
               THEN Raised("AttributeError", {})
               ELSE [Blank EXCEPT !.kind = "ok",
                                  !.body = Some(Detected(file.filename[1]))])
    /\ UNCHANGED <<env, issued, echoed>>

\* the response dictionary test_database returns
Health(listOk) ==
    [database |->
         IF db # None
         THEN (IF listOk THEN "Connected & Working" ELSE "Connected but Error")
         ELSE "Available but not initialized",
     database_url |-> IF env.DATABASE_URL THEN "Set" ELSE "Not Set",
     database_name |-> IF env.DATABASE_NAME THEN "Set" ELSE "Not Set",
     connection_status |-> IF db # None THEN "Connected" ELSE "Not Connected",
     collections |->
         IF db # None /\ listOk THEN Take(NamesFrom(1), MaxCollectionsShown)
         ELSE <<>>]

test_database(listOk) ==
    /\ req' = [op |-> "test_database", arg |-> None]
    /\ resp' = [Blank EXCEPT !.kind = "ok", !.health = Health(listOk)]
    /\ UNCHANGED <<env, store, nextOid, issued, echoed>>

----------------------------------------------------------------------------
(* Inputs *)

GuestInputs ==
    [full_name : {None, Some("Asha Rao")}, phone : {None, Some("+91")},
     id_type : {Some("aadhaar"), Some("visa")}, id_number : {None, Some("+91")}]

BookingInputs ==
    [guest_id : {None, Some("1")}, room_number : {"204"}, check_in : {2},
     check_out : {1}, rate : {Some(-1), Some(0), Some(1200)},
     status : {None, Some("lost")}]

NotificationInputs ==
    [channel : {None, Some("sms"), Some("whatsapp"), Some("email")},
     to : {"+91"}, message : {"welcome"}]

Uploads ==
    [filename : {None, Some(<<"a", ".", "J", "P", "G">>),
                 Some(<<"a", ".", "p", "d", "f">>)},
     content_type : {"image/jpeg"}]

Queries == {None, Some(""), Some("+91")}

Limits == {1, DefaultLimit}

\* the guest SpecBulk registers in numbers, and the one that may differ
BulkGuest ==
    [full_name |-> Some("Asha Rao"), phone |-> None,
     id_type |-> Some("aadhaar"), id_number |-> None]

BulkGuestInputs ==
    {BulkGuest, [BulkGuest EXCEPT !.phone = Some("+91")],
     [BulkGuest EXCEPT !.full_name = None]}

Varied ==
    Cardinality({i \in 1..Len(store["guest"]) :
                     store["guest"][i].data # GuestDump(BulkGuest)})

Init ==
    /\ env \in [DATABASE_URL : BOOLEAN, DATABASE_NAME : BOOLEAN]
    /\ store = [c \in {"guest", "booking", "iddocument", "notification"} |-> <<>>]
    /\ nextOid = 1
    /\ req = [op |-> "none", arg |-> None]
    /\ resp = Blank
    /\ issued = {}
    /\ echoed = {}

\* a create may insert while the store is below its bound
Room(writeOk) == TotalDocs < MaxDocs \/ ~writeOk

CreateGuest == \E raw \in GuestInputs, writeOk \in BOOLEAN :
    Room(writeOk) /\ create_guest(raw, writeOk)

ListGuests == \E q \in Queries, limit \in Limits : list_guests(q, limit)

CreateBooking == \E raw \in BookingInputs, writeOk \in BOOLEAN :
    Room(writeOk) /\ create_booking(raw, writeOk)

ListBookings == \E limit \in {1, DefaultBookingLimit} : list_bookings(limit)

SendNotification == \E raw \in NotificationInputs, writeOk \in BOOLEAN :
    Room(writeOk) /\ send_notification(raw, writeOk)

OcrExtract == \E file \in Uploads, writeOk \in BOOLEAN :
    Room(writeOk) /\ ocr_extract(file, writeOk)

TestDatabase == \E listOk \in BOOLEAN : test_database(listOk)

Next ==
    \/ CreateGuest
    \/ ListGuests
    \/ CreateBooking
    \/ ListBookings
    \/ SendNotification
    \/ OcrExtract
    \/ TestDatabase

Spec == Init /\ [][Next]_vars

\* registration in numbers: the guest collection grows past the default page
BulkCreateGuest == \E raw \in BulkGuestInputs :
    /\ Len(store["guest"]) < DefaultLimit + MaxExtra
    /\ raw = BulkGuest \/ raw.full_name = None \/ Varied < MaxVaried
    /\ create_guest(raw, TRUE)

BulkListGuests == \E q \in {None, Some("+91")}, limit \in Limits : list_guests(q, limit)

NextBulk ==
    \/ BulkCreateGuest
    \/ BulkListGuests

SpecBulk == Init /\ [][NextBulk]_vars

----------------------------------------------------------------------------
(* Properties *)

\* a stored document as a caller sees it: {"_id": str, ...}
Seen(doc) == [_id |-> Str(doc._id), data |-> doc.data]

\* the identifiers of every stored document, in string form
StoredIds ==
    UNION { {Str(store[c][i]._id) : i \in 1..Len(store[c])} :
              c \in {"guest", "booking", "iddocument", "notification"} }

\* the response lists the dictionary e
Listed(e) == \E k \in 1..Len(resp.docs) : resp.docs[k] = e

\* the schemas' constraints, stated on the inputs
ValidGuestInput(raw) ==
    /\ raw.full_name # None
    /\ raw.id_type \in {None, Some("aadhaar"), Some("pan"), Some("passport"), Some("other")}

ValidBookingInput(raw) ==
    /\ raw.guest_id # None
    /\ raw.rate # None /\ raw.rate[1] >= 0
    /\ raw.status \in {None, Some("booked"), Some("checked_in"),
                       Some("checked_out"), Some("cancelled")}

ValidNotificationInput(raw) == raw.channel \in {Some("sms"), Some("whatsapp")}

\* store[c] continues unchanged into store'[c]
Kept(c) ==
    /\ Len(store'[c]) >= Len(store[c])
    /\ SubSeq(store'[c], 1, Len(store[c])) = store[c]

IsDefaultListing ==
    /\ req.op = "list_guests"
    /\ resp.kind = "ok"
    /\ req.arg[1].q = None
    /\ req.arg[1].limit = DefaultLimit

\* a successful create_guest returns an identifier never issued nor stored
\* before, and the record it echoes is the one now stored under it
C1_FreshStep ==
    (req'.op = "create_guest" /\ resp'.kind = "ok") =>
        /\ resp'.id \notin issued
        /\ resp'.id \notin StoredIds
        /\ resp'.body[1]._id = resp'.id
        /\ resp'.body[1].data.full_name = req'.arg[1].full_name[1]
        /\ resp'.body[1].data.phone = req'.arg[1].phone
        /\ resp'.body[1].data.id_number = req'.arg[1].id_number
        /\ Len(store'["guest"]) = Len(store["guest"]) + 1
        /\ Seen(store'["guest"][Len(store'["guest"])]) = resp'.body[1]

\* C1 as claimed: every successful create_guest returns a fresh identifier,
\* and every later list_guests without q and with the default limit lists
\* the record of every guest created so far.
C1_RoundTrip ==
    [][C1_FreshStep /\ (IsDefaultListing' => \A e \in echoed' : Listed(e)')]_vars

\* C1 as amended: every successful create_guest returns a fresh identifier
\* and stores the echoed record; every later list_guests without q and with
\* the default limit lists, field for field, the record of every created
\* guest that is among the first DefaultLimit guests stored, and lists no
\* more than DefaultLimit records.
C1_RoundTripWithinPage ==
    [][ /\ C1_FreshStep
        /\ IsDefaultListing' =>
             /\ Len(resp'.docs) <= DefaultLimit
             /\ \A e \in echoed' :
                  \E i \in 1..Len(store'["guest"]) :
                      /\ Seen(store'["guest"][i]) = e
                      /\ i <= DefaultLimit => Listed(e)' ]_vars

\* the page is full, a further guest exists, and the first page is listed
C1_Witness ==
    /\ IsDefaultListing
    /\ Len(store["guest"]) = DefaultLimit + 1
    /\ Len(resp.docs) = DefaultLimit
    /\ \E e \in echoed : e.data.phone = Some("+91") /\ Listed(e)

IsQueryListing ==
    /\ req.op = "list_guests"
    /\ resp.kind = "ok"
    /\ req.arg[1].q # None
    /\ req.arg[1].q[1] # ""

\* the positions of the stored guests whose phone or id_number is the string s
Hits(s) ==
    {i \in 1..Len(store["guest"]) :
        \/ store["guest"][i].data.phone = Some(s)
        \/ store["guest"][i].data.id_number = Some(s)}

\* C2 as claimed: list_guests with a non-empty q returns exactly the stored
\* guests whose phone or id_number equals q: each of them and no other.
C2_ExactMatchSet ==
    IsQueryListing =>
        /\ \A k \in 1..Len(resp.docs) :
             \E i \in Hits(req.arg[1].q[1]) : resp.docs[k] = Seen(store["guest"][i])
        /\ \A i \in Hits(req.arg[1].q[1]) : Listed(Seen(store["guest"][i]))

\* C2 as amended: list_guests with a non-empty q and limit n returns, in
\* insertion order, the first n stored guests whose phone or id_number
\* equals q, and no other guest; all of them when at most n match.
C2_MatchesUpToLimit ==
    IsQueryListing =>
        LET hits == Hits(req.arg[1].q[1])
            n == req.arg[1].limit
        IN /\ Len(resp.docs) = Min(n, Cardinality(hits))
           /\ \A k \in 1..Len(resp.docs) :
                \E i \in hits :
                    /\ Cardinality({j \in hits : j <= i}) = k
                    /\ resp.docs[k] = Seen(store["guest"][i])

\* two guests stored, one listed: it matches by id_number and not by phone
C2_Witness ==
    /\ IsQueryListing
    /\ Len(store["guest"]) = 2
    /\ Len(resp.docs) = 1
    /\ resp.docs[1].data.id_number = req.arg[1].q
    /\ resp.docs[1].data.phone # req.arg[1].q
    /\ Len(resp.docs) = Cardinality(Hits(req.arg[1].q[1]))

C3_Step ==
    (req'.op = "create_booking" /\ req'.arg[1].rate # None /\ req'.arg[1].rate[1] < 0) =>
        /\ resp'.kind = "ValidationError"
        /\ "rate" \in resp'.fields
        /\ store' = store

\* C3: create_booking with rate < 0 fails with a ValidationError that cites
\* the rate field and leaves the store, so the booking collection, unchanged.
C3_NegativeRateRejected == [][C3_Step]_vars

\* a booking exists and a later one with a negative rate was rejected
C3_Witness ==
    /\ req.op = "create_booking"
    /\ req.arg[1].rate = Some(-1)
    /\ req.arg[1].guest_id # None
    /\ resp.kind = "ValidationError"
    /\ Len(store["booking"]) = 1

\* C4: a successful send_notification has stored a record with status queued
\* under the identifier it returns, and the status it reports is that
\* record's status.
C4_ReportedStatusIsStored ==
    (req.op = "send_notification" /\ resp.kind = "ok") =>
        \E i \in 1..Len(store["notification"]) :
            /\ Str(store["notification"][i]._id) = resp.id
            /\ store["notification"][i].data.status = "queued"
            /\ resp.status = store["notification"][i].data.status

DomainOps ==
    {"create_guest", "list_guests", "create_booking", "list_bookings",
     "send_notification", "ocr_extract"}

\* the health response of a process without storage
C5_HealthDegraded ==
    (db = None /\ req.op = "test_database") =>
        /\ resp.kind = "ok"
        /\ resp.health.database = "Available but not initialized"
        /\ resp.health.connection_status = "Not Connected"
        /\ resp.health.collections = <<>>

\* C5 as claimed: without storage every domain operation ends in
\* StoreUnavailable and test_database still returns its response, whose
\* database field reports the missing storage.
C5_AllStoreUnavailable ==
    /\ (db = None /\ req.op \in DomainOps) => resp.kind = "StoreUnavailable"
    /\ C5_HealthDegraded

\* whether the request's input passes the validation that precedes the store
C5_InputValid ==
    CASE req.op = "create_guest" -> ValidGuestInput(req.arg[1])
      [] req.op = "create_booking" -> ValidBookingInput(req.arg[1])
      [] req.op = "send_notification" -> ValidNotificationInput(req.arg[1])
      [] OTHER -> TRUE

\* C5 as amended: without storage every domain operation whose input passes
\* validation ends in StoreUnavailable, one whose input fails validation ends
\* in ValidationError, nothing is stored, and test_database still returns its
\* response, whose database field reports the storage as not initialized.
C5_DegradedMode ==
    /\ (db = None /\ req.op \in DomainOps) =>
          /\ resp.kind = IF C5_InputValid THEN "StoreUnavailable" ELSE "ValidationError"
          /\ TotalDocs = 0
    /\ C5_HealthDegraded

\* without storage a valid booking has ended in StoreUnavailable
C5_Witness ==
    /\ db = None
    /\ req.op = "create_booking"
    /\ ValidBookingInput(req.arg[1])
    /\ resp.kind = "StoreUnavailable"

C6_UniqueIds ==
    Cardinality(StoredIds) = TotalDocs

C6_Step ==
    /\ C6_UniqueIds'
    /\ \A c \in {"guest", "booking", "iddocument", "notification"} : Kept(c)

\* C6: stored documents carry pairwise distinct identifiers across all
\* collections, and every step keeps each stored document, unchanged and in
\* place, so every collection only grows.
C6_AppendOnlyUniqueIds == [][C6_Step]_vars

\* two bookings stored, one after the other
C6_Witness ==
    /\ Len(store["booking"]) = 2
    /\ store["booking"][1]._id # store["booking"][2]._id

C7_Step ==
    (req'.op = "create_guest" /\ ValidGuestInput(req'.arg[1]) /\ db # None) =>
        /\ resp'.kind \in {"ok", "StoreWriteError"}
        /\ resp'.kind = "ok" =>
              /\ Len(store'["guest"]) = Len(store["guest"]) + 1
              /\ Kept("guest")
              /\ store'["guest"][Len(store'["guest"])].data.phone = req'.arg[1].phone
              /\ store'["guest"][Len(store'["guest"])].data.id_number = req'.arg[1].id_number
              /\ \A i \in 1..Len(store["guest"]) : Str(store["guest"][i]._id) # resp'.id

\* C7: every successful create_guest, whether or not a guest with the same
\* fields is already stored, adds one record under a new identifier and keeps
\* the guests stored before; a valid input is never refused as a duplicate.
C7_NoDeduplication == [][C7_Step]_vars

\* the same input was stored twice, under two identifiers
C7_Witness ==
    /\ Len(store["guest"]) = 2
    /\ store["guest"][1].data = store["guest"][2].data
    /\ store["guest"][1]._id # store["guest"][2]._id
    /\ req.op = "create_guest"
    /\ resp.kind = "ok"

C8_Step ==
    (req'.op = "ocr_extract" /\ db # None) =>
        /\ resp'.kind \in {"ok", "AttributeError", "StoreWriteError"}
        /\ resp'.kind \in {"ok", "AttributeError"} =>
              /\ Len(store'["iddocument"]) = Len(store["iddocument"]) + 1
              /\ Kept("iddocument")
              /\ store'["iddocument"][Len(store'["iddocument"])].data.file_name
                     = req'.arg[1].filename

\* C8: whenever ocr_extract gets as far as the extraction, whether the
\* extraction returns a result or fails, the audit record of that upload has
\* been added to the iddocument collection.
C8_AuditBeforeExtraction == [][C8_Step]_vars

\* the type detection failed and the audit record is stored
C8_Witness ==
    /\ req.op = "ocr_extract"
    /\ resp.kind = "AttributeError"
    /\ Len(store["iddocument"]) = 1
    /\ store["iddocument"][1].data.file_name = None

\* the create request fails the validation of its entity
C9_Invalid ==
    \/ req.op = "create_guest" /\ ~ValidGuestInput(req.arg[1])
    \/ req.op = "create_booking" /\ ~ValidBookingInput(req.arg[1])
    \/ req.op = "send_notification" /\ ~ValidNotificationInput(req.arg[1])

C9_Step ==
    C9_Invalid' =>
        /\ resp'.kind = "ValidationError"
        /\ resp'.fields # {}
        /\ store' = store
        /\ nextOid' = nextOid

\* C9: a create operation whose input violates the entity schema ends in
\* ValidationError, never in a store failure, also when the store is missing
\* or the write would fail, and leaves the store unchanged.
C9_ValidationFirst == [][C9_Step]_vars

\* without storage, a channel outside the schema was rejected as invalid
C9_Witness ==
    /\ db = None
    /\ req.op = "send_notification"
    /\ req.arg[1].channel = Some("email")
    /\ resp.kind = "ValidationError"
    /\ resp.fields = {"channel"}

\* the collection a create operation writes
Target(op) ==
    CASE op = "create_guest" -> "guest"
      [] op = "create_booking" -> "booking"
      [] op = "send_notification" -> "notification"
      [] op = "ocr_extract" -> "iddocument"

C10_Step ==
    IF req'.op \in {"list_guests", "list_bookings", "test_database"}
    THEN store' = store
    ELSE /\ \A c \in {"guest", "booking", "iddocument", "notification"} :
              c # Target(req'.op) => store'[c] = store[c]
         /\ Kept(Target(req'.op))
         /\ Len(store'[Target(req'.op)]) =
                Len(store[Target(req'.op)])
                    + (IF resp'.kind \in {"ok", "AttributeError"} THEN 1 ELSE 0)

\* C10: a create operation that is served adds exactly one record to its own
\* collection, one that fails before or in its write adds none, no create
\* touches another collection, and list_guests, list_bookings and
\* test_database leave the store unchanged.
C10_OneWriteOwnCollection == [][C10_Step]_vars

\* a booking was added while a guest was stored
C10_Witness ==
    /\ req.op = "create_booking"
    /\ resp.kind = "ok"
    /\ Len(store["guest"]) = 1
    /\ Len(store["booking"]) = 1

====
